---- MODULE Spec2Model ----
(***************************************************************************)
(* The two tutorial scripts of the repository as one state machine.        *)
(*                                                                         *)
(*   recipes_source/recipes/swap_tensors.py      labels "S<line>"          *)
(*   intermediate_source/torch_export_tutorial.py labels "E<line>"         *)
(*                                                                         *)
(* pc is the line of the statement that runs next.  Python objects live in *)
(* heap (the index is id(obj)); tensor storages live in store, so that two *)
(* tensors can share one storage (detach, Parameter) as they do in the     *)
(* framework.  The sections of the recipe build their own objects and      *)
(* share only the swap flag, which line 142 puts back to False, so every   *)
(* section is explored from an empty heap (Init chooses the section).      *)
(* seen keeps what the script's prints show, by the line of the print.     *)
(* The framework's own functions (swap_tensors, Parameter, Module.to,      *)
(* load_state_dict, export) are modelled as the scripts use and describe   *)
(* them.                                                                   *)
(***************************************************************************)
EXTENDS Integers, Sequences, FiniteSets, TLC

VARIABLES pc, heap, store, env, opt, flag, seen, cnt,
          ep, called, tracebacks, logs

recipe == <<heap, store, env, opt, flag, cnt>>

tutorial == <<ep, called, tracebacks, logs>>

vars == <<pc, heap, store, env, opt, flag, seen, cnt, ep, called, tracebacks, logs>>

\* ------------------------------------------------------------------ bounds
\* torch.arange(n) is explored for n in 0..MaxLen (the script uses 2 and 3).
MaxLen == 3
\* Initial parameter values (torch's random init) are drawn from 0..MaxVal.
MaxVal == 2
\* swap_tensors(t1, t2) is applied up to MaxSwaps times in a row.
MaxSwaps == 3
\* optimizer.step() is applied up to MaxSteps times.
MaxSteps == 2
\* The largest size a dimension without a stated maximum is taken to have.
MaxDim == 1000

Values == 0 .. MaxVal
\* lr * grad of one optimizer step, per element
Grads == {-1, 0, 1}

\* The scale 0.5 of the quantized weights, in tenths
ScaleTenths == 5

\* Python's None, for an object id, a storage id and an attribute
None == 0

\* ------------------------------------------------------------- the objects
\* An object is its __class__, its __dict__ and its at::Tensor.  Tensors have
\* no __slots__ of their own, so that part of an object is always empty and
\* is left out.
NoDict == [elem |-> None, scale |-> 0, is_param |-> FALSE]

TensorImpl(dtype, device, shape, sid, rg) ==
    [dtype |-> dtype, device |-> device, shape |-> shape, storage |-> sid,
     requires_grad |-> rg]

Obj(cls, dict, ten) == [cls |-> cls, dict |-> dict, ten |-> ten]

Mach(h, s) == [heap |-> h, store |-> s]

Ret(m, id) == [m |-> m, id |-> id]

AllocObj(m, o) == Ret([m EXCEPT !.heap = Append(@, o)], Len(m.heap) + 1)

AllocStorage(m, d) == Ret([m EXCEPT !.store = Append(@, d)], Len(m.store) + 1)

Numel(shape) ==
    IF Len(shape) = 0 THEN 1
    ELSE IF Len(shape) = 1 THEN shape[1] ELSE shape[1] * shape[2]

\* A tensor filled with fill(i) at element i.  A meta tensor has no storage.
NewTensor(m, cls, dtype, device, shape, fill, rg) ==
    IF device = "meta"
    THEN AllocObj(m, Obj(cls, NoDict, TensorImpl(dtype, device, shape, None, rg)))
    ELSE LET s == AllocStorage(m, [i \in 1 .. Numel(shape) |-> fill[i]])
         IN AllocObj(s.m, Obj(cls, NoDict, TensorImpl(dtype, device, shape, s.id, rg)))

\* The elements of a tensor (none for a meta tensor or a wrapper).
Data(m, id) ==
    IF m.heap[id].ten.storage = None THEN << >> ELSE m.store[m.heap[id].ten.storage]

\* torch.arange(n)
Arange(m, n) ==
    NewTensor(m, "Tensor", "int64", "cpu", <<n>>, [i \in 1 .. n |-> i - 1], FALSE)

SwapTensorsKeepImpl(m, a, b) ==
    [m EXCEPT !.heap = [@ EXCEPT
        ![a] = Obj(m.heap[b].cls, m.heap[b].dict, m.heap[a].ten),
        ![b] = Obj(m.heap[a].cls, m.heap[a].dict, m.heap[b].ten)]]

\* torch.utils.swap_tensors(a, b): swaps __class__, __dict__ and the
\* at::Tensor of the two objects; the objects (their ids) stay.
SwapTensors(m, a, b) ==
    [m EXCEPT !.heap = [@ EXCEPT
        ![a] = Obj(m.heap[b].cls, m.heap[b].dict, m.heap[b].ten),
        ![b] = Obj(m.heap[a].cls, m.heap[a].dict, m.heap[a].ten)]]

\* ---------------------------------------------------- tensor operations
\* float32 -> bfloat16 keeps 8 of the 24 significand bits: a value loses its
\* low bits.  Values are small integers; the conversion drops the lowest bit.
\* Every other conversion the scripts make is exact.
Convert(v, from, to) ==
    IF to = "bfloat16" /\ from # "bfloat16" THEN v - (v % 2) ELSE v

\* aten.detach on a plain tensor: a new object on the same storage.
Detach(m, id) ==
    AllocObj(m, Obj("Tensor", NoDict,
                    [m.heap[id].ten EXCEPT !.requires_grad = FALSE]))

\* aten._to_copy on a plain tensor: a new object on a new, converted storage.
ToCopy(m, id, dtype) ==
    LET t == m.heap[id].ten
    IN IF t.storage = None
       THEN AllocObj(m, Obj("Tensor", NoDict,
                [t EXCEPT !.dtype = dtype, !.requires_grad = FALSE]))
       ELSE LET s == AllocStorage(m, [i \in DOMAIN m.store[t.storage] |->
                                        Convert(m.store[t.storage][i], t.dtype, dtype)])
            IN AllocObj(s.m, Obj("Tensor", NoDict,
                    [t EXCEPT !.dtype = dtype, !.storage = s.id,
                              !.requires_grad = FALSE]))

AtenOp(m, func, id, dtype) ==
    IF func = "detach" THEN Detach(m, id) ELSE ToCopy(m, id, dtype)

\* MyQuantizedLinearWeight(elem, scale): __new__ makes a wrapper with elem's
\* shape, dtype and device and no storage; __init__ sets elem and scale.
MyQuantizedLinearWeight(m, elem, scale) ==
    LET e == m.heap[elem].ten
    IN AllocObj(m, Obj("MyQuantizedLinearWeight",
            [elem |-> elem, scale |-> scale, is_param |-> FALSE],
            TensorImpl(e.dtype, e.device, e.shape, None, FALSE)))

TorchDispatchKeepElem(m, func, id, dtype) ==
    IF func \in {"detach", "_to_copy"}
    THEN MyQuantizedLinearWeight(m, m.heap[id].dict.elem, m.heap[id].dict.scale)
    ELSE Ret(m, None)

\* MyQuantizedLinearWeight.__torch_dispatch__: detach and _to_copy run on the
\* payload and the result is wrapped again; any other op raises (id None).
TorchDispatch(m, func, id, dtype) ==
    IF func \in {"detach", "_to_copy"}
    THEN LET new_elem == AtenOp(m, func, m.heap[id].dict.elem, dtype)
         IN MyQuantizedLinearWeight(new_elem.m, new_elem.id, m.heap[id].dict.scale)
    ELSE Ret(m, None)

\* An op called on a tensor goes to the subclass' handler if it has one.
Call(m, func, id, dtype) ==
    IF m.heap[id].cls = "MyQuantizedLinearWeight"
    THEN TorchDispatch(m, func, id, dtype)
    ELSE AtenOp(m, func, id, dtype)

IsParameter(o) == o.cls = "Parameter" \/ o.dict.is_param

\* torch.nn.Parameter(data, requires_grad): a plain tensor becomes a new
\* Parameter object on the same storage; a tensor of a custom class is
\* detached (through its handler) and marked as a parameter.
Parameter(m, id, rg) ==
    IF m.heap[id].cls \in {"Tensor", "Parameter"}
    THEN AllocObj(m, Obj("Parameter", NoDict,
                         [m.heap[id].ten EXCEPT !.requires_grad = rg]))
    ELSE LET d == Call(m, "detach", id, m.heap[id].ten.dtype)
         IN Ret([d.m EXCEPT !.heap = [@ EXCEPT
                    ![d.id] = Obj(@.cls, [@.dict EXCEPT !.is_param = TRUE],
                                  [@.ten EXCEPT !.requires_grad = rg])]], d.id)

\* torch.nn.Linear(in, out, bias, dtype, device): weight and bias parameters,
\* each filled with one initial value.
LinearParam(m, shape, dtype, device, fill) ==
    NewTensor(m, "Parameter", dtype, device, shape, fill, TRUE)

\* k * tensor: a new plain tensor on a new storage.
Mul(m, k, id) ==
    LET t == m.heap[id].ten
        s == AllocStorage(m, [i \in DOMAIN Data(m, id) |-> k * Data(m, id)[i]])
    IN AllocObj(s.m, Obj("Tensor", NoDict, [t EXCEPT !.storage = s.id]))

ModWeightAssignInPlace(m, w) ==
    Ret([m EXCEPT !.store = [@ EXCEPT ![m.heap[w].ten.storage] =
            [i \in DOMAIN @ |-> 2 * @[i]]]], w)

\* mod.weight = torch.nn.Parameter(2 * mod.weight): the object mod.weight is
\* bound to afterwards.
ModWeightAssign(m, w) ==
    LET t == Mul(m, 2, w) IN Parameter(t.m, t.id, TRUE)

\* optimizer.step() of SGD: every parameter the optimizer holds is updated
\* in place, p -= lr * grad, with g[i] the step of element i.
OptimizerStep(m, params, g) ==
    [m EXCEPT !.store = [s \in DOMAIN @ |->
        IF \E k \in DOMAIN params : m.heap[params[k]].ten.storage = s
        THEN [i \in DOMAIN @[s] |-> @[s][i] - g[i]]
        ELSE @[s]]]

DataSetWithDict(m, p, src) ==
    [m EXCEPT !.heap = [@ EXCEPT ![p] = Obj(@.cls, m.heap[src].dict,
        [m.heap[src].ten EXCEPT !.requires_grad = m.heap[p].ten.requires_grad])]]

\* param.data = src: the object p takes src's at::Tensor; its class and its
\* __dict__ stay.
DataSet(m, p, src) ==
    [m EXCEPT !.heap = [@ EXCEPT ![p] = Obj(@.cls, @.dict,
        [m.heap[src].ten EXCEPT !.requires_grad = m.heap[p].ten.requires_grad])]]

\* nn.Module._apply on one parameter, fn = t.to(dtype).  With the swap flag
\* the converted parameter is swapped in; without it fn(param.data) is
\* assigned to param.data.
ApplyParam(m, p, dtype, swap) ==
    IF swap
    THEN LET r == Call(m, "_to_copy", p, dtype)
             q == Parameter(r.m, r.id, m.heap[p].ten.requires_grad)
         IN SwapTensors(q.m, p, q.id)
    ELSE LET d == Call(m, "detach", p, dtype)
             r == Call(d.m, "_to_copy", d.id, dtype)
         IN DataSet(r.m, p, r.id)

\* m.bfloat16() and the like: every parameter in turn, weight then bias.
ModuleTo(m, w, b, dtype, swap) ==
    ApplyParam(ApplyParam(m, w, dtype, swap), b, dtype, swap)

\* self.copy_(other): other's elements, converted, into self's storage.
CopyInto(m, dest, src) ==
    IF m.heap[dest].ten.storage = None \/ m.heap[src].ten.storage = None
    THEN m
    ELSE [m EXCEPT !.store = [@ EXCEPT ![m.heap[dest].ten.storage] =
            [i \in DOMAIN @ |-> Convert(Data(m, src)[i], m.heap[src].ten.dtype,
                                        m.heap[dest].ten.dtype)]]]

\* torch.Tensor.module_load(self, other, assign)
TensorModuleLoad(m, dest, src, assign) ==
    IF assign
    THEN Call(m, "detach", src, m.heap[src].ten.dtype)
    ELSE Call(CopyInto(m, dest, src), "detach", dest, m.heap[dest].ten.dtype)

CustomTorchFunctionWrapDest(m, func, dest, src, assign) ==
    IF func = "module_load"
    THEN IF m.heap[dest].cls = "MyQuantizedLinearWeight" /\ m.heap[src].cls = "Tensor"
         THEN MyQuantizedLinearWeight(m, m.heap[dest].dict.elem, m.heap[dest].dict.scale)
         ELSE Ret(m, None)
    ELSE Call(m, func, dest, m.heap[dest].ten.dtype)

\* custom_torch_function, installed as MyQuantizedLinearWeight.__torch_function__:
\* module_load wraps src with dest's scale (the assert failing is id None);
\* any other function runs as usual.
CustomTorchFunction(m, func, dest, src, assign) ==
    IF func = "module_load"
    THEN IF m.heap[dest].cls = "MyQuantizedLinearWeight" /\ m.heap[src].cls = "Tensor"
         THEN MyQuantizedLinearWeight(m, src, m.heap[dest].dict.scale)
         ELSE Ret(m, None)
    ELSE Call(m, func, dest, m.heap[dest].ten.dtype)

\* param.module_load(input_param, assign): the handler runs if either tensor
\* is a MyQuantizedLinearWeight.
ModuleLoad(m, dest, src, assign) ==
    IF "MyQuantizedLinearWeight" \in {m.heap[dest].cls, m.heap[src].cls}
    THEN CustomTorchFunction(m, "module_load", dest, src, assign)
    ELSE TensorModuleLoad(m, dest, src, assign)

\* load_state_dict on one parameter; id is the object the module's attribute
\* is bound to afterwards (None: the load raised).
LoadParam(m, p, src, assign, swap) ==
    IF swap
    THEN LET r == ModuleLoad(m, p, src, assign)
         IN IF r.id = None THEN Ret(m, None)
            ELSE LET q == IF IsParameter(m.heap[p]) /\ ~IsParameter(r.m.heap[r.id])
                          THEN Parameter(r.m, r.id, m.heap[p].ten.requires_grad)
                          ELSE r
                 IN Ret(SwapTensors(q.m, p, q.id), p)
    ELSE IF assign
         THEN Parameter(m, src, m.heap[p].ten.requires_grad)
         ELSE Ret(CopyInto(m, p, src), p)

\* ------------------------------------------- torch_export_tutorial.py
\* logging.INFO and logging.WARNING; DEBUG and ERROR are the levels next to
\* them.
INFO == 20

WARNING == 30

LogLevels == {INFO - 10, INFO, WARNING, WARNING + 10}

\* A dimension of an input as export() constrains it: static (sym = "", the
\* size is b) or a * s + b for the symbol s = sym with lo <= s <= hi.
NoDim == [sym |-> "", a |-> 0, b |-> 0, lo |-> 0, hi |-> 0]

StaticDim(c) == [sym |-> "", a |-> 0, b |-> c, lo |-> 0, hi |-> 0]

\* torch.export.Dim(name, min=lo, max=hi)
Dim(name, lo, hi) == [sym |-> name, a |-> 1, b |-> 0, lo |-> lo, hi |-> hi]

\* a * d + b for a Dim d (dimx + 1, dx * 3 + 1)
Derived(d, a, b) == [d EXCEPT !.a = a * d.a, !.b = a * d.b + b]

\* dynamic_shapes=None: no dimension is given a Dim
NoDynamicShapes(ex) == [i \in DOMAIN ex |-> [j \in DOMAIN ex[i] |-> NoDim]]

\* The constraints on the inputs of an exported program: a dimension with no
\* Dim is static, with the size of the example input.
SpecOf(ex, dyn) ==
    [i \in DOMAIN ex |-> [j \in DOMAIN ex[i] |->
        IF dyn[i][j].sym = "" THEN StaticDim(ex[i][j]) ELSE dyn[i][j]]]

\* The value of d's symbol when the dimension has size v
Solve(d, v) == (v - d.b) \div d.a

DimOkStaticUnchecked(d, v) ==
    IF d.sym = "" THEN TRUE
    ELSE /\ (v - d.b) % d.a = 0
         /\ d.lo <= Solve(d, v)
         /\ Solve(d, v) <= d.hi

\* Whether size v satisfies the constraint d of its dimension.
DimOk(d, v) ==
    IF d.sym = "" THEN v = d.b
    ELSE /\ (v - d.b) % d.a = 0
         /\ d.lo <= Solve(d, v)
         /\ Solve(d, v) <= d.hi

Positions(spec) == {<<i, j>> \in (1 .. 3) \X (1 .. 3) :
                        i \in DOMAIN spec /\ j \in DOMAIN spec[i]}

\* Whether inputs of the shapes sh satisfy the constraints: same ranks, every
\* dimension within its constraint, one value per symbol.
Accepts(spec, sh) ==
    /\ Len(sh) = Len(spec)
    /\ \A i \in DOMAIN spec : Len(sh[i]) = Len(spec[i])
    /\ \A p \in Positions(spec) : DimOk(spec[p[1]][p[2]], sh[p[1]][p[2]])
    /\ \A p, q \in Positions(spec) :
         LET dp == spec[p[1]][p[2]]
             dq == spec[q[1]][q[2]]
         IN (dp.sym # "" /\ dp.sym = dq.sym) =>
                Solve(dp, sh[p[1]][p[2]]) = Solve(dq, sh[q[1]][q[2]])

\* What the traced code needs of the shapes: size(p) <= k, size(p) >= k, or
\* size(q) = k * size(p) + d.
Le(p, k) == [op |-> "le", p |-> p, q |-> p, k |-> k, d |-> 0]

Ge(p, k) == [op |-> "ge", p |-> p, q |-> p, k |-> k, d |-> 0]

Eq(p, q, k, d) == [op |-> "eq", p |-> p, q |-> q, k |-> k, d |-> d]

DimLo(d) == IF d.sym = "" THEN d.b ELSE d.a * d.lo + d.b

DimHi(d) == IF d.sym = "" THEN d.b ELSE d.a * d.hi + d.b

\* Whether the constraints guarantee what the traced code needs.
Implied(spec, r) ==
    LET dp == spec[r.p[1]][r.p[2]]
        dq == spec[r.q[1]][r.q[2]]
    IN IF r.op = "le" THEN DimHi(dp) <= r.k
       ELSE IF r.op = "ge" THEN DimLo(dp) >= r.k
       ELSE IF dp.sym = "" /\ dq.sym = "" THEN dq.b = r.k * dp.b + r.d
       ELSE /\ dp.sym # ""
            /\ dp.sym = dq.sym
            /\ dq.a = r.k * dp.a
            /\ dq.b = r.k * dp.b + r.d

\* The modules the tutorial exports: the features of forward() that matter to
\* export, and what forward() needs of the input shapes.
Modules ==
    [MyModule |-> [features |-> {}, requires |-> {Eq(<<1, 1>>, <<2, 1>>, 1, 0)}],
     Bad1 |-> [features |-> {"data_dependent_control_flow"}, requires |-> {}],
     Bad2 |-> [features |-> {"tensor_data_access"}, requires |-> {}],
     Bad3 |-> [features |-> {"unsupported_function"}, requires |-> {}],
     Bad4 |-> [features |-> {"raise_in_try"}, requires |-> {}],
     Bad1Fixed |-> [features |-> {"cond"}, requires |-> {}],
     MyModule2 |-> [features |-> {}, requires |-> {Eq(<<1, 1>>, <<2, 1>>, 1, 0)}],
     DynamicShapesExample1 |-> [features |-> {}, requires |-> {}],
     DynamicShapesExample2 |->
        [features |-> {}, requires |-> {Eq(<<1, 2>>, <<2, 1>>, 1, 0)}],
     DerivedDimExample1 |->
        [features |-> {}, requires |-> {Eq(<<1, 1>>, <<2, 1>>, 1, 1)}],
     DerivedDimExample2 |->
        [features |-> {}, requires |-> {Eq(<<1, 1>>, <<2, 1>>, 3, -2)}],
     DynamicShapesExample3 |->
        [features |-> {},
         requires |-> {Le(<<1, 1>>, 16), Eq(<<1, 2>>, <<2, 1>>, 1, 0),
                       Ge(<<2, 2>>, 17)}]]

\* The features that need a graph break (lines 124-167); non-strict export
\* traces through all of them but data-dependent control flow.
GraphBreaks ==
    {"data_dependent_control_flow", "tensor_data_access", "unsupported_function",
     "raise_in_try"}

NonStrictUnsupported == {"data_dependent_control_flow"}

NoProgram == [ok |-> FALSE, spec |-> << >>]

\* export(mod, ex, dynamic_shapes=dyn, strict=strict): the exported program,
\* or NoProgram when export raises.
Export(mod, ex, dyn, strict) ==
    LET spec == SpecOf(ex, dyn)
        unsupported == IF strict THEN GraphBreaks ELSE NonStrictUnsupported
    IN IF mod.features \cap unsupported # {} THEN NoProgram
       ELSE IF ~Accepts(spec, ex) THEN NoProgram
       ELSE IF \E r \in mod.requires : ~Implied(spec, r) THEN NoProgram
       ELSE [ok |-> TRUE, spec |-> spec]

\* exported.module()(*inputs) raises unless the program exists and the inputs
\* satisfy its constraints.
CallRaises(prog, sh) == ~prog.ok \/ ~Accepts(prog.spec, sh)

\* The statements of the tutorial, by line.  handler is the line of the
\* except clause of the try block around the statement ("" if there is none).
ExportS(mod, ex, dyn, strict, target, handler, next) ==
    [kind |-> "export", mod |-> mod, ex |-> ex, dyn |-> dyn, strict |-> strict,
     target |-> target, handler |-> handler, next |-> next]

CallS(target, inputs, handler, next) ==
    [kind |-> "call", target |-> target, inputs |-> inputs, handler |-> handler,
     next |-> next]

ExceptS(next) == [kind |-> "except", next |-> next]

SetLogsS(level, next) == [kind |-> "set_logs", level |-> level, next |-> next]

\* Shapes tried for the call of line 325 (the script passes two (10, 100)).
TestShapes == {<<8, 100>>, <<10, 100>>, <<8, 99>>, <<8>>, <<8, 100, 1>>}

inp1_dim0 == Dim("inp1_dim0", 0, MaxDim)

inp1_dim1 == Dim("inp1_dim1", 4, 18)

inp1_dim1_bad == Dim("inp1_dim1_bad", 11, 18)

dynamic_shapes1 == << <<inp1_dim0, inp1_dim1, NoDim>> >>

dynamic_shapes1_bad == << <<inp1_dim0, inp1_dim1_bad, NoDim>> >>

dynamic_shapes2 ==
    << <<Dim("inp2_dim0", 0, MaxDim), Dim("inner_dim", 0, MaxDim)>>,
       <<Dim("inner_dim", 0, MaxDim), Dim("inp3_dim1", 0, MaxDim)>> >>

dimx == Dim("dimx", 3, 6)

derived_dynamic_shapes1 == << <<dimx>>, <<Derived(dimx, 1, 1)>> >>

dx == Dim("dx", 3, 6)

derived_dynamic_shapes2 == << <<Derived(dx, 1, 1)>>, <<Derived(dx, 3, 1)>> >>

dynamic_shapes3 ==
    << <<Dim("inp4_dim0", 0, MaxDim), Dim("inp4_dim1", 0, MaxDim)>>,
       <<Dim("inp5_dim0", 0, MaxDim), Dim("inp5_dim1", 0, MaxDim)>> >>

\* suggested_fixes()
dynamic_shapes3_fixed ==
    << <<Dim("inp4_dim0", 0, 16), Dim("shared_dim", 0, MaxDim)>>,
       <<Dim("shared_dim", 0, MaxDim), Dim("inp5_dim1", 17, MaxDim)>> >>

Ex33 == << <<3, 3>> >>

Ex8100 == << <<8, 100>>, <<8, 100>> >>

Script ==
    ("E73" :> ExportS("MyModule", Ex8100, NoDynamicShapes(Ex8100), TRUE,
                      "exported_mod", "", "E75"))
 @@ ("E75" :> CallS("exported_mod", {Ex8100}, "", "E136"))
 @@ ("E136" :> ExportS("Bad1", Ex33, NoDynamicShapes(Ex33), TRUE, "_", "E138", "E149"))
 @@ ("E138" :> ExceptS("E149"))
 @@ ("E149" :> ExportS("Bad2", Ex33, NoDynamicShapes(Ex33), TRUE, "_", "E151", "E162"))
 @@ ("E151" :> ExceptS("E162"))
 @@ ("E162" :> ExportS("Bad3", Ex33, NoDynamicShapes(Ex33), TRUE, "_", "E164", "E179"))
 @@ ("E164" :> ExceptS("E179"))
 @@ ("E179" :> ExportS("Bad4", Ex33, NoDynamicShapes(Ex33), TRUE, "_", "E181", "E208"))
 @@ ("E181" :> ExceptS("E208"))
 @@ ("E208" :> ExportS("Bad2", Ex33, NoDynamicShapes(Ex33), FALSE,
                       "bad2_nonstrict", "", "E209"))
 @@ ("E209" :> CallS("bad2_nonstrict", {Ex33}, "", "E222"))
 @@ ("E222" :> ExportS("Bad3", Ex33, NoDynamicShapes(Ex33), FALSE,
                       "bad3_nonstrict", "", "E224"))
 @@ ("E224" :> CallS("bad3_nonstrict", {Ex33}, "", "E239"))
 @@ ("E239" :> ExportS("Bad4", Ex33, NoDynamicShapes(Ex33), FALSE,
                       "bad4_nonstrict", "", "E240"))
 @@ ("E240" :> CallS("bad4_nonstrict", {Ex33}, "", "E265"))
 @@ ("E265" :> ExportS("Bad1Fixed", Ex33, NoDynamicShapes(Ex33), TRUE,
                       "exported_bad1_fixed", "", "E266"))
 @@ ("E266" :> CallS("exported_bad1_fixed", {Ex33}, "", "E267"))
 @@ ("E267" :> CallS("exported_bad1_fixed", {Ex33}, "", "E322"))
 @@ ("E322" :> ExportS("MyModule2", Ex8100, NoDynamicShapes(Ex8100), TRUE,
                       "exported_mod2", "", "E325"))
 @@ ("E325" :> CallS("exported_mod2", {<<x, y>> : x \in TestShapes, y \in TestShapes},
                     "E327", "E367"))
 @@ ("E327" :> ExceptS("E367"))
 @@ ("E367" :> ExportS("DynamicShapesExample1", << <<10, 10, 2>> >>, dynamic_shapes1,
                       TRUE, "exported_dynamic_shapes_example1", "", "E369"))
 @@ ("E369" :> CallS("exported_dynamic_shapes_example1", {<< <<5, 5, 2>> >>}, "", "E372"))
 @@ ("E372" :> CallS("exported_dynamic_shapes_example1", {<< <<8, 1, 2>> >>},
                     "E374", "E377"))
 @@ ("E374" :> ExceptS("E377"))
 @@ ("E377" :> CallS("exported_dynamic_shapes_example1", {<< <<8, 20, 2>> >>},
                     "E379", "E382"))
 @@ ("E379" :> ExceptS("E382"))
 @@ ("E382" :> CallS("exported_dynamic_shapes_example1", {<< <<8, 8, 3>> >>},
                     "E384", "E396"))
 @@ ("E384" :> ExceptS("E396"))
 @@ ("E396" :> ExportS("DynamicShapesExample1", << <<10, 10, 2>> >>,
                       dynamic_shapes1_bad, TRUE, "_", "E398", "E420"))
 @@ ("E398" :> ExceptS("E420"))
 @@ ("E420" :> ExportS("DynamicShapesExample2", << <<4, 8>>, <<8, 2>> >>,
                       dynamic_shapes2, TRUE, "exported_dynamic_shapes_example2",
                       "", "E422"))
 @@ ("E422" :> CallS("exported_dynamic_shapes_example2", {<< <<2, 16>>, <<16, 4>> >>},
                     "", "E425"))
 @@ ("E425" :> CallS("exported_dynamic_shapes_example2", {<< <<4, 8>>, <<4, 2>> >>},
                     "E427", "E445"))
 @@ ("E427" :> ExceptS("E445"))
 @@ ("E445" :> ExportS("DerivedDimExample1", << <<5>>, <<6>> >>,
                       derived_dynamic_shapes1, TRUE, "derived_dim_example1", "", "E447"))
 @@ ("E447" :> CallS("derived_dim_example1", {<< <<4>>, <<5>> >>}, "", "E450"))
 @@ ("E450" :> CallS("derived_dim_example1", {<< <<4>>, <<6>> >>}, "E452", "E467"))
 @@ ("E452" :> ExceptS("E467"))
 @@ ("E467" :> ExportS("DerivedDimExample2", << <<4>>, <<10>> >>,
                       derived_dynamic_shapes2, TRUE, "derived_dim_example2", "", "E468"))
 @@ ("E468" :> CallS("derived_dim_example2", {<< <<7>>, <<19>> >>}, "", "E492"))
 @@ ("E492" :> ExportS("DynamicShapesExample3", << <<8, 16>>, <<16, 32>> >>,
                       dynamic_shapes3, TRUE, "_", "E494", "E514"))
 @@ ("E494" :> ExceptS("E514"))
 @@ ("E514" :> ExportS("DynamicShapesExample3", << <<8, 16>>, <<16, 32>> >>,
                       dynamic_shapes3_fixed, TRUE, "exported_dynamic_shapes_example3",
                       "", "E515"))
 @@ ("E515" :> CallS("exported_dynamic_shapes_example3", {<< <<4, 32>>, <<32, 64>> >>},
                     "", "E527"))
 @@ ("E527" :> SetLogsS(INFO, "E528"))
 @@ ("E528" :> ExportS("DynamicShapesExample3", << <<8, 16>>, <<16, 32>> >>,
                       dynamic_shapes3_fixed, TRUE, "exported_dynamic_shapes_example3",
                       "", "E531"))
 @@ ("E531" :> SetLogsS(WARNING, "E537"))

Programs ==
    {"_", "exported_mod", "bad2_nonstrict", "bad3_nonstrict", "bad4_nonstrict",
     "exported_bad1_fixed", "exported_mod2", "exported_dynamic_shapes_example1",
     "exported_dynamic_shapes_example2", "derived_dim_example1",
     "derived_dim_example2", "exported_dynamic_shapes_example3"}

\* ------------------------------------------------------------------- state
NoEnv ==
    [t1 |-> None, t2 |-> None, mod_weight |-> None, m_weight |-> None,
     m_bias |-> None, sd_weight |-> None, sd_bias |-> None]

Sections == {"S25", "S46", "S116", "S211"}

\* The recipe starts at one of its sections with the default log levels; the
\* tutorial starts at line 73 with whatever log levels are in force in the
\* process (they are set from outside the script, lines 522-524).
Init ==
    /\ heap = << >>
    /\ store = << >>
    /\ env = NoEnv
    /\ opt = << >>
    /\ flag = FALSE
    /\ seen = [l \in {} |-> 0]
    /\ cnt = 0
    /\ ep = [n \in Programs |-> NoProgram]
    /\ called = [at |-> "", inputs |-> << >>, raised |-> FALSE]
    /\ tracebacks = 0
    /\ \/ pc \in Sections /\ logs = [dynamic |-> WARNING, dynamo |-> WARNING]
       \/ pc = "E73" /\ logs \in [dynamic : LogLevels, dynamo : LogLevels]

M == Mach(heap, store)

Set(m) == heap' = m.heap /\ store' = m.store

\* What print shows of an object: the object and its elements.
Show(id) == [obj |-> heap[id], data |-> Data(M, id)]

\* --------------------------------------------- swap_tensors.py, lines 25-29
S25 ==
    /\ pc = "S25"
    /\ \E n \in 0 .. MaxLen :
         LET r == Arange(M, n)
         IN Set(r.m) /\ env' = [env EXCEPT !.t1 = r.id]
    /\ pc' = "S26"
    /\ UNCHANGED <<opt, flag, seen, cnt, tutorial>>

S26 ==
    /\ pc = "S26"
    /\ \E n \in 0 .. MaxLen :
         LET r == Arange(M, n)
         IN Set(r.m) /\ env' = [env EXCEPT !.t2 = r.id]
    /\ pc' = "S27"
    /\ UNCHANGED <<opt, flag, seen, cnt, tutorial>>

S27 ==
    /\ pc = "S27"
    /\ seen' = seen @@ ("S27" :> [ids |-> <<env.t1, env.t2>>,
                                  t1 |-> Show(env.t1), t2 |-> Show(env.t2)])
    /\ pc' = "S28"
    /\ UNCHANGED <<heap, store, env, opt, flag, cnt, tutorial>>

S28 ==
    /\ pc = "S28"
    /\ cnt < MaxSwaps
    /\ Set(SwapTensors(M, env.t1, env.t2))
    /\ cnt' = cnt + 1
    /\ pc' = "S28"
    /\ UNCHANGED <<env, opt, flag, seen, tutorial>>

S29 ==
    /\ pc = "S28"
    /\ cnt >= 1
    /\ seen' = seen @@ ("S29" :> [ids |-> <<env.t1, env.t2>>,
                                  t1 |-> Show(env.t1), t2 |-> Show(env.t2)])
    /\ pc' = "S31"
    /\ UNCHANGED <<heap, store, env, opt, flag, cnt, tutorial>>

\* --------------------------------------------- swap_tensors.py, lines 46-52
S46 ==
    /\ pc = "S46"
    /\ \E v1, v2 \in Values :
         LET r == LinearParam(M, <<2, 1>>, "float32", "cpu", <<v1, v2>>)
         IN Set(r.m) /\ env' = [env EXCEPT !.mod_weight = r.id]
    /\ pc' = "S47"
    /\ UNCHANGED <<opt, flag, seen, cnt, tutorial>>

S47 ==
    /\ pc = "S47"
    /\ opt' = <<env.mod_weight>>
    /\ pc' = "S48"
    /\ UNCHANGED <<heap, store, env, flag, seen, cnt, tutorial>>

S48 ==
    /\ pc = "S48"
    /\ seen' = seen @@ ("S48" :> [weight |-> Show(env.mod_weight),
                                  params |-> [k \in DOMAIN opt |-> Show(opt[k])]])
    /\ pc' = "S50"
    /\ UNCHANGED <<heap, store, env, opt, flag, cnt, tutorial>>

S50 ==
    /\ pc = "S50"
    /\ LET r == ModWeightAssign(M, env.mod_weight)
       IN Set(r.m) /\ env' = [env EXCEPT !.mod_weight = r.id]
    /\ pc' = "S51"
    /\ UNCHANGED <<opt, flag, seen, cnt, tutorial>>

S51 ==
    /\ pc = "S51"
    /\ seen' = seen @@ ("S51" :> [weight |-> Show(env.mod_weight),
                                  params |-> [k \in DOMAIN opt |-> Show(opt[k])]])
    /\ pc' = "S54"
    /\ UNCHANGED <<heap, store, env, opt, flag, cnt, tutorial>>

\* optimizer.step() (lines 43-44), any number of times after the script's
\* statements
Step ==
    /\ pc = "S54"
    /\ cnt < MaxSteps
    /\ \E g1, g2 \in Grads : Set(OptimizerStep(M, opt, <<g1, g2>>))
    /\ cnt' = cnt + 1
    /\ UNCHANGED <<pc, env, opt, flag, seen, tutorial>>

\* ----------------------------------------- swap_tensors.py, lines 116-142
\* The same five statements run twice, at 116-123 without the swap flag and
\* at 134-141 with it.
After ==
    [S116 |-> "S117", S117 |-> "S118", S118 |-> "S119", S119 |-> "S120",
     S120 |-> "S133", S133 |-> "S134", S134 |-> "S135", S135 |-> "S136",
     S136 |-> "S137", S137 |-> "S138", S138 |-> "S142", S142 |-> "S144"]

\* m = nn.Linear(3, 5, dtype=torch.float32)
S116 ==
    /\ pc \in {"S116", "S134"}
    /\ \E v, b \in Values :
         LET w == LinearParam(M, <<5, 3>>, "float32", "cpu", [i \in 1 .. 15 |-> v])
             c == LinearParam(w.m, <<5>>, "float32", "cpu", [i \in 1 .. 5 |-> b])
         IN Set(c.m) /\ env' = [env EXCEPT !.m_weight = w.id, !.m_bias = c.id]
    /\ pc' = After[pc]
    /\ UNCHANGED <<opt, flag, seen, cnt, tutorial>>

\* m.weight = torch.nn.Parameter(MyQuantizedLinearWeight(m.weight, 0.5))
S117 ==
    /\ pc \in {"S117", "S135"}
    /\ LET q == MyQuantizedLinearWeight(M, env.m_weight, ScaleTenths)
           r == Parameter(q.m, q.id, TRUE)
       IN Set(r.m) /\ env' = [env EXCEPT !.m_weight = r.id]
    /\ pc' = After[pc]
    /\ UNCHANGED <<opt, flag, seen, cnt, tutorial>>

\* print(f"Before: id(m.weight)=..., id(m.bias)=...")
S118 ==
    /\ pc \in {"S118", "S136"}
    /\ seen' = seen @@ (pc :> [ids |-> <<env.m_weight, env.m_bias>>])
    /\ pc' = After[pc]
    /\ UNCHANGED <<heap, store, env, opt, flag, cnt, tutorial>>

\* m.bfloat16()
S119 ==
    /\ pc \in {"S119", "S137"}
    /\ Set(ModuleTo(M, env.m_weight, env.m_bias, "bfloat16", flag))
    /\ pc' = After[pc]
    /\ UNCHANGED <<env, opt, flag, seen, cnt, tutorial>>

\* the four prints after the conversion
S120 ==
    /\ pc \in {"S120", "S138"}
    /\ seen' = seen @@ (pc :>
         [ids |-> <<env.m_weight, env.m_bias>>,
          weight_dtype |-> heap[env.m_weight].ten.dtype,
          elem_dtype |-> heap[heap[env.m_weight].dict.elem].ten.dtype,
          bias_dtype |-> heap[env.m_bias].ten.dtype])
    /\ pc' = After[pc]
    /\ UNCHANGED <<heap, store, env, opt, flag, cnt, tutorial>>

\* torch.__future__.set_swap_module_params_on_conversion(True / False)
SetSwapFlag ==
    /\ pc \in {"S133", "S142", "S219"}
    /\ flag' = (pc # "S142")
    /\ pc' = IF pc = "S219" THEN "S220" ELSE After[pc]
    /\ UNCHANGED <<heap, store, env, opt, seen, cnt, tutorial>>

\* ----------------------------------------- swap_tensors.py, lines 203-226
\* with torch.device("meta"): m = nn.Linear(3, 5)
S211 ==
    /\ pc = "S211"
    /\ LET w == LinearParam(M, <<5, 3>>, "float32", "meta", << >>)
           c == LinearParam(w.m, <<5>>, "float32", "meta", << >>)
       IN Set(c.m) /\ env' = [env EXCEPT !.m_weight = w.id, !.m_bias = c.id]
    /\ pc' = "S212"
    /\ UNCHANGED <<opt, flag, seen, cnt, tutorial>>

\* m.apply(fn)
S212 ==
    /\ pc = "S212"
    /\ LET q == MyQuantizedLinearWeight(M, env.m_weight, ScaleTenths)
           r == Parameter(q.m, q.id, heap[env.m_weight].ten.requires_grad)
       IN Set(r.m) /\ env' = [env EXCEPT !.m_weight = r.id]
    /\ pc' = "S219"
    /\ UNCHANGED <<opt, flag, seen, cnt, tutorial>>

S220 ==
    /\ pc = "S220"
    /\ seen' = seen @@ ("S220" :> [ids |-> <<env.m_weight, env.m_bias>>,
                                   scale |-> heap[env.m_weight].dict.scale])
    /\ pc' = "S222"
    /\ UNCHANGED <<heap, store, env, opt, flag, cnt, tutorial>>

\* state_dict = nn.Linear(3, 5).state_dict(): detached views of the
\* parameters of a fresh layer
S222 ==
    /\ pc = "S222"
    /\ \E v, b \in Values :
         LET w == LinearParam(M, <<5, 3>>, "float32", "cpu", [i \in 1 .. 15 |-> v])
             c == LinearParam(w.m, <<5>>, "float32", "cpu", [i \in 1 .. 5 |-> b])
             dw == Detach(c.m, w.id)
             dc == Detach(dw.m, c.id)
         IN Set(dc.m) /\ env' = [env EXCEPT !.sd_weight = dw.id, !.sd_bias = dc.id]
    /\ pc' = "S224"
    /\ UNCHANGED <<opt, flag, seen, cnt, tutorial>>

\* m.load_state_dict(state_dict, assign=True)
S224 ==
    /\ pc = "S224"
    /\ LET w == LoadParam(M, env.m_weight, env.sd_weight, TRUE, flag)
           c == LoadParam(w.m, env.m_bias, env.sd_bias, TRUE, flag)
       IN /\ w.id # None /\ c.id # None
          /\ Set(c.m)
          /\ env' = [env EXCEPT !.m_weight = w.id, !.m_bias = c.id]
    /\ pc' = "S225"
    /\ UNCHANGED <<opt, flag, seen, cnt, tutorial>>

S225 ==
    /\ pc = "S225"
    /\ seen' = seen @@ ("S225" :> [ids |-> <<env.m_weight, env.m_bias>>,
                                   weight |-> Show(env.m_weight),
                                   bias |-> Show(env.m_bias)])
    /\ pc' = "S228"
    /\ UNCHANGED <<heap, store, env, opt, flag, cnt, tutorial>>

\* ------------------------------------- torch_export_tutorial.py, 61-537
StmtAt(k) == pc \in DOMAIN Script /\ Script[pc].kind = k

OnRaiseUncaught(st) == "aborted"

\* Where a statement that raises goes: to the except clause of its try block
\* (except Exception catches what export and the exported module raise), or
\* out of the script.
OnRaise(st) == IF st.handler # "" THEN st.handler ELSE "aborted"

\* export(...), assigned to a name or not
ExportStmt ==
    /\ StmtAt("export")
    /\ LET st == Script[pc]
           r == Export(Modules[st.mod], st.ex, st.dyn, st.strict)
       IN IF r.ok
          THEN ep' = [ep EXCEPT ![st.target] = r] /\ pc' = st.next
          ELSE ep' = ep /\ pc' = OnRaise(st)
    /\ UNCHANGED <<recipe, seen, called, tracebacks, logs>>

\* exported.module()(*inputs)
CallStmt ==
    /\ StmtAt("call")
    /\ LET st == Script[pc]
       IN \E sh \in st.inputs :
            /\ called' = [at |-> pc, inputs |-> sh,
                          raised |-> CallRaises(ep[st.target], sh)]
            /\ pc' = IF CallRaises(ep[st.target], sh) THEN OnRaise(st) ELSE st.next
    /\ UNCHANGED <<recipe, seen, ep, tracebacks, logs>>

\* except Exception: tb.print_exc()
ExceptStmt ==
    /\ StmtAt("except")
    /\ tracebacks' = tracebacks + 1
    /\ pc' = Script[pc].next
    /\ UNCHANGED <<recipe, seen, ep, called, logs>>

\* torch._logging.set_logs(dynamic=level, dynamo=level); seen keeps the
\* levels the call found.
SetLogsStmt ==
    /\ StmtAt("set_logs")
    /\ logs' = [dynamic |-> Script[pc].level, dynamo |-> Script[pc].level]
    /\ seen' = seen @@ (pc :> logs)
    /\ pc' = Script[pc].next
    /\ UNCHANGED <<recipe, ep, called, tracebacks>>

Next ==
    \/ S25 \/ S26 \/ S27 \/ S28 \/ S29
    \/ S46 \/ S47 \/ S48 \/ S50 \/ S51 \/ Step
    \/ S116 \/ S117 \/ S118 \/ S119 \/ S120 \/ SetSwapFlag
    \/ S211 \/ S212 \/ S220 \/ S222 \/ S224 \/ S225
    \/ ExportStmt \/ CallStmt \/ ExceptStmt \/ SetLogsStmt

Spec == Init /\ [][Next]_vars

\* ------------------------------------------------------------------ claims

\* C1: swap_tensors(t1, t2) swaps the two tensors: after the call the object
\* t1 holds everything t2 held before (class, attribute dict, tensor data) and
\* t2 everything t1 held, the ids of the two objects are unchanged, and a
\* second swap restores the original state.  After an odd number of swaps the
\* two objects show each other's content as printed at line 27, after an even
\* number their own.
C1_SwapTensorsSwaps ==
    "S27" \in DOMAIN seen =>
        LET b == seen["S27"]
            odd == cnt % 2 = 1
        IN /\ <<env.t1, env.t2>> = b.ids
           /\ Show(env.t1) = (IF odd THEN b.t2 ELSE b.t1)
           /\ Show(env.t2) = (IF odd THEN b.t1 ELSE b.t2)

C1_Witness ==
    /\ pc = "S31"
    /\ cnt = 2
    /\ seen["S27"].t1 # seen["S27"].t2
    /\ seen["S29"].t1 = seen["S27"].t1

\* C2: with the swap flag set, m.bfloat16() keeps id(m.weight) and id(m.bias)
\* and converts the payload: m.weight.dtype, m.weight.elem.dtype and
\* m.bias.dtype as printed at lines 139-141 are all bfloat16.
C2_SwapConversionConvertsPayload ==
    "S138" \in DOMAIN seen =>
        /\ seen["S138"].ids = seen["S136"].ids
        /\ seen["S138"].weight_dtype = "bfloat16"
        /\ seen["S138"].elem_dtype = "bfloat16"
        /\ seen["S138"].bias_dtype = "bfloat16"

C2_Witness ==
    /\ pc = "S142"
    /\ flag
    /\ heap[env.m_weight].cls = "MyQuantizedLinearWeight"
    /\ "S138" \in DOMAIN seen

\* C3: without the swap flag, m.bfloat16() changes m.weight.dtype and
\* m.bias.dtype to bfloat16, and the dtype of the payload m.weight.elem stays
\* float32 (the prints of lines 121-123).
C3_DataSettingLeavesPayload ==
    "S120" \in DOMAIN seen =>
        /\ seen["S120"].weight_dtype = "bfloat16"
        /\ seen["S120"].bias_dtype = "bfloat16"
        /\ seen["S120"].elem_dtype = "float32"

C3_Witness ==
    /\ pc = "S133"
    /\ ~flag
    /\ heap[env.m_weight].cls = "MyQuantizedLinearWeight"
    /\ "S120" \in DOMAIN seen

\* C4: after mod.weight = Parameter(2 * mod.weight) the optimizer still holds
\* the old parameter object: params[0] is not the object mod.weight, shares no
\* storage with it and shows the old value at line 52; optimizer.step() runs
\* and never changes the module's weight.
C4_OptimizerKeepsOldParameter ==
    pc \in {"S51", "S54"} =>
        /\ opt[1] # env.mod_weight
        /\ heap[opt[1]].ten.storage # heap[env.mod_weight].ten.storage
        /\ pc = "S51" => Show(opt[1]) = seen["S48"].weight
        /\ pc = "S54" =>
             /\ seen["S51"].params[1] = seen["S48"].weight
             /\ seen["S51"].weight.data =
                  [i \in 1 .. 2 |-> 2 * seen["S48"].weight.data[i]]
             /\ Show(env.mod_weight) = seen["S51"].weight

C4_Witness ==
    /\ pc = "S54"
    /\ cnt >= 1
    /\ Data(M, opt[1]) # seen["S48"].weight.data
    /\ seen["S51"].weight.data # seen["S48"].weight.data

\* C5: with the swap flag set, load_state_dict(state_dict, assign=True) keeps
\* id(m.weight) and id(m.bias); m.weight is a MyQuantizedLinearWeight whose
\* payload is on the storage of state_dict['weight'] and whose scale is the
\* one of the module's previous weight (0.5); m.bias has the properties and
\* the values of state_dict['bias'] and is not on the meta device.
C5_LoadSwapsInTransformedValue ==
    "S225" \in DOMAIN seen =>
        LET a == seen["S225"]
            w == a.weight.obj
            sdw == heap[env.sd_weight]
            sdb == heap[env.sd_bias]
        IN /\ a.ids = seen["S220"].ids
           /\ w.cls = "MyQuantizedLinearWeight"
           /\ w.dict.scale = seen["S220"].scale
           /\ w.dict.scale = ScaleTenths
           /\ heap[w.dict.elem].ten.storage = sdw.ten.storage
           /\ [heap[w.dict.elem].ten EXCEPT !.requires_grad = FALSE] = sdw.ten
           /\ w.ten.device = sdw.ten.device
           /\ a.bias.obj.ten.device # "meta"
           /\ [a.bias.obj.ten EXCEPT !.requires_grad = FALSE] = sdb.ten
           /\ a.bias.data = Data(M, env.sd_bias)

C5_Witness ==
    /\ pc = "S228"
    /\ flag
    /\ heap[seen["S220"].ids[2]].ten.device = "cpu"
    /\ Data(M, env.sd_bias) # << >>

\* C6: with no dynamic_shapes the program exported at line 322 accepts inputs
\* of exactly the example shapes, two (8, 100), and raises for inputs whose
\* shapes differ from them in any dimension, such as two (10, 100).
C6_StaticShapesByDefault ==
    called.at = "E325" =>
        (called.raised <=> called.inputs # Script["E322"].ex)

C6_Witness ==
    /\ pc = "E327"
    /\ called.at = "E325"
    /\ called.inputs = << <<10, 100>>, <<10, 100>> >>
    /\ called.raised
    /\ ep["exported_mod2"].ok

\* C7: strict export of Bad1, Bad2, Bad3 and Bad4 each raises, the except
\* clause of each try block prints the traceback, and no failure of the
\* tutorial stops the script: the statement after each block runs with one
\* more traceback printed.
C7_FailuresAreCaught ==
    /\ pc # "aborted"
    /\ pc = "E149" => tracebacks = 1
    /\ pc = "E162" => tracebacks = 2
    /\ pc = "E179" => tracebacks = 3
    /\ pc = "E208" => tracebacks = 4 /\ ~ep["_"].ok
    /\ pc = "E367" => tracebacks = 4 + (IF called.raised THEN 1 ELSE 0)

C7_Witness ==
    /\ pc = "E537"
    /\ tracebacks = 12
    /\ ep["exported_dynamic_shapes_example3"].ok

\* C8: after line 531 the 'dynamic' and 'dynamo' log levels are the levels
\* they had right before set_logs(dynamic=INFO, dynamo=INFO) at line 527,
\* whatever those were.
C8_LogLevelsRestored ==
    pc = "E537" => logs = seen["E527"]

====
